---- MODULE Spec2Model ----
(***************************************************************************)
(* GenericTemplateLanguage (cli/src/generic_templater.rs): the keyword     *)
(* table, the dispatch of function and method calls to the core table or   *)
(* to the keyword table, and the coercions of GenericTemplatePropertyKind. *)
(***************************************************************************)
EXTENDS Integers, Sequences, FiniteSets, TLC

VARIABLES
    settings,    \* GenericTemplateLanguage::settings
    keywords,    \* GenericTemplateLanguage::build_fn_table.keywords
    ctor,        \* history: the constructor that built the environment
    latest,      \* history: per name, the build fn registered last
    overwritten, \* history: the names registered again with another build fn
    resolved,    \* history: build_function or build_method has been called
    last         \* the last call: its arguments, what it returned and what it called

vars == <<settings, keywords, ctor, latest, overwritten, resolved, last>>

(* ---------------------------- bounds ---------------------------------- *)

\* largest number of arguments of a call node
MaxArgs == 2
\* number of distinct lazy self properties (BoxedTemplateProperty<C>)
NumLazies == 2

(* ---------------------------- inputs ---------------------------------- *)

\* values of UserSettings handed to the constructors
SettingsValues == {"settingsA", "settingsB"}

\* names of call nodes and of keywords
Names == {"foo", "contains", "concat"}

\* lazy producers of the self type C
Lazies == 1..NumLazies

\* FunctionCallNode: the callee name and the number of arguments
FunctionCallNodes == [name : Names, nargs : 0..MaxArgs]

\* the keyword closures the host registers, by identity
BuildFns == {"to_string", "to_self", "fails"}

(* ------------------------ results and options -------------------------- *)

Ok(v) == [ok |-> TRUE, val |-> v]

Err(e) == [ok |-> FALSE, err |-> e]

Some(v) == [some |-> TRUE, val |-> v]

None == [some |-> FALSE]

(* ----------------------- the core property kind ------------------------ *)

CoreTypes == {"String", "Integer", "Boolean", "Template"}

\* a core property: its kind, and where its value comes from
\* (0: a literal, l > 0: derived from the lazy self property l)
CoreTemplatePropertyKind == [type : CoreTypes, src : 0..NumLazies]

CoreTypeName(p) == p.type

CoreTryIntoBoolean(p) ==
    IF p.type \in {"String", "Boolean"}
    THEN Some([as |-> "bool", of |-> <<p>>])
    ELSE None

CoreTryIntoInteger(p) ==
    IF p.type = "Integer"
    THEN Some([as |-> "i64", of |-> <<p>>])
    ELSE None

CoreTryIntoPlainText(p) ==
    IF p.type \in {"String", "Template"}
    THEN Some([as |-> "String", of |-> <<p>>])
    ELSE None

CoreTryIntoTemplate(p) == Some([as |-> "Template", of |-> <<p>>])

CoreTryIntoEq(lhs, rhs) ==
    IF lhs.type = rhs.type /\ lhs.type \in {"String", "Integer", "Boolean"}
    THEN Some([as |-> "bool", of |-> <<lhs, rhs>>])
    ELSE None

CoreTryIntoCmp(lhs, rhs) ==
    IF lhs.type = rhs.type /\ lhs.type = "Integer"
    THEN Some([as |-> "Ordering", of |-> <<lhs, rhs>>])
    ELSE None

(* --------------------- GenericTemplatePropertyKind --------------------- *)

Core(p) == [tag |-> "Core", core |-> p]

Self_(l) == [tag |-> "Self_", lazy |-> l]

GenericTemplatePropertyKind ==
    {Core(p) : p \in CoreTemplatePropertyKind} \cup {Self_(l) : l \in Lazies}

\* the self type reported under the name of the enum variant
type_name_variant(property) ==
    IF property.tag = "Core" THEN CoreTypeName(property.core) ELSE "Self_"

type_name(property) ==
    IF property.tag = "Core" THEN CoreTypeName(property.core) ELSE "Self"

try_into_boolean(property) ==
    IF property.tag = "Core" THEN CoreTryIntoBoolean(property.core) ELSE None

try_into_integer(property) ==
    IF property.tag = "Core" THEN CoreTryIntoInteger(property.core) ELSE None

try_into_plain_text(property) ==
    IF property.tag = "Core" THEN CoreTryIntoPlainText(property.core) ELSE None

try_into_template(property) ==
    IF property.tag = "Core" THEN CoreTryIntoTemplate(property.core) ELSE None

\* two self properties taken as comparable
try_into_eq_self(lhs, rhs) ==
    IF lhs.tag = "Core" /\ rhs.tag = "Core"
    THEN CoreTryIntoEq(lhs.core, rhs.core)
    ELSE IF lhs.tag = "Core" THEN None
    ELSE IF rhs.tag = "Self_" THEN Some([as |-> "bool", of |-> <<lhs, rhs>>])
    ELSE None

try_into_eq(lhs, rhs) ==
    IF lhs.tag = "Core" /\ rhs.tag = "Core"
    THEN CoreTryIntoEq(lhs.core, rhs.core)
    ELSE IF lhs.tag = "Core" THEN None
    ELSE None

try_into_cmp(lhs, rhs) ==
    IF lhs.tag = "Core" /\ rhs.tag = "Core"
    THEN CoreTryIntoCmp(lhs.core, rhs.core)
    ELSE IF lhs.tag = "Core" THEN None
    ELSE None

(* ------------------------- template_parser ----------------------------- *)

NoSuchFunction(name) == [kind |-> "NoSuchFunction", name |-> name]

NoSuchMethod(tn, name) == [kind |-> "NoSuchMethod", type_name |-> tn, name |-> name]

InvalidArguments(name) ==
    [kind |-> "InvalidArguments", name |-> name, message |-> "Expected 0 arguments"]

\* HashMap<&'static str, GenericTemplateBuildKeywordFn>: a set of entries
HashMapContains(table, name) == \E e \in table : e.name = name

HashMapGet(table, name) ==
    IF HashMapContains(table, name)
    THEN Some((CHOOSE e \in table : e.name = name).build)
    ELSE None

HashMapInsert(table, name, build) ==
    {e \in table : e.name # name} \cup {[name |-> name, build |-> build]}

\* every table a HashMap can hold: at most one entry per key
GenericTemplateBuildKeywordFnMap ==
    UNION {{{[name |-> n, build |-> f[n]] : n \in D} : f \in [D -> BuildFns]} :
           D \in SUBSET Names}

lookup_method(tn, table, function) ==
    LET found == HashMapGet(table, function.name) IN
    IF found.some THEN Ok(found.val) ELSE Err(NoSuchMethod(tn, function.name))

expect_no_arguments(function) ==
    IF function.nargs = 0 THEN Ok("unit") ELSE Err(InvalidArguments(function.name))

(* ---------------------- CoreTemplateBuildFnTable ----------------------- *)

\* builtin functions: concat(...) of any number of arguments
CoreBuildFunction(function) ==
    IF function.name = "concat"
    THEN Ok(Core([type |-> "Template", src |-> 0]))
    ELSE Err(NoSuchFunction(function.name))

\* builtin methods: String.contains(needle)
CoreBuildMethod(p, function) ==
    IF p.type = "String" /\ function.name = "contains"
    THEN IF function.nargs = 1
         THEN Ok(Core([type |-> "Boolean", src |-> p.src]))
         ELSE Err([kind |-> "InvalidArguments", name |-> function.name,
                   message |-> "Expected 1 arguments"])
    ELSE Err(NoSuchMethod(CoreTypeName(p), function.name))

(* --------------------- keyword functions of the host ------------------- *)

\* GenericTemplateBuildKeywordFn: what each registered closure returns for
\* the self property it is given
ApplyBuild(build, l) ==
    CASE build = "to_string" -> Ok(Core([type |-> "String", src |-> l]))
      [] build = "to_self" -> Ok(Self_(l))
      [] OTHER -> Err([kind |-> "Expression", message |-> "keyword failed"])

(* ----------------------- GenericTemplateLanguage ----------------------- *)

\* &self
This == [settings |-> settings, keywords |-> keywords]

with_keywords(table, s) == [settings |-> s, keywords |-> table]

new(s) == with_keywords({}, s)

\* entry(name).or_insert(build): the first registration is kept
add_keyword_keep_first(table, name, build) ==
    IF HashMapContains(table, name) THEN table ELSE HashMapInsert(table, name, build)

\* the table frozen by the first resolution call
add_keyword_frozen(table, name, build) ==
    IF resolved THEN table ELSE HashMapInsert(table, name, build)

add_keyword(table, name, build) == HashMapInsert(table, name, build)

\* the calls a resolution makes, in order
CalledCore(what) == [call |-> what]

CalledLookup(name) == [call |-> "lookup_method", name |-> name]

CalledExpect == [call |-> "expect_no_arguments"]

CalledBuild(build, l) == [call |-> "build", build |-> build, arg |-> l]

\* a free call resolved through the keyword table when a keyword has its name
build_function_keywords(this, function) ==
    LET found == lookup_method("Self", this.keywords, function) IN
    IF found.ok
    THEN [result |-> Err(InvalidArguments(function.name)),
          trace |-> <<CalledLookup(function.name)>>]
    ELSE [result |-> CoreBuildFunction(function),
          trace |-> <<CalledLookup(function.name), CalledCore("core.build_function")>>]

build_function(this, function) ==
    [result |-> CoreBuildFunction(function),
     trace |-> <<CalledCore("core.build_function")>>]

\* expect_no_arguments before lookup_method
build_method_arity_first(this, property, function) ==
    LET tn == type_name(property) IN
    IF property.tag = "Core"
    THEN [result |-> CoreBuildMethod(property.core, function),
          trace |-> <<CalledCore("core.build_method")>>]
    ELSE LET table == this.keywords
             found == lookup_method(tn, table, function)
             arity == expect_no_arguments(function)
         IN  IF ~arity.ok
             THEN [result |-> Err(arity.err), trace |-> <<CalledExpect>>]
             ELSE IF ~found.ok
             THEN [result |-> Err(found.err),
                   trace |-> <<CalledExpect, CalledLookup(function.name)>>]
             ELSE [result |-> ApplyBuild(found.val, property.lazy),
                   trace |-> <<CalledExpect, CalledLookup(function.name),
                               CalledBuild(found.val, property.lazy)>>]

\* the error of the keyword function replaced by the lookup error
build_method_map_err(this, property, function) ==
    LET tn == type_name(property) IN
    IF property.tag = "Core"
    THEN [result |-> CoreBuildMethod(property.core, function),
          trace |-> <<CalledCore("core.build_method")>>]
    ELSE LET table == this.keywords
             found == lookup_method(tn, table, function)
             arity == expect_no_arguments(function)
         IN  IF ~found.ok
             THEN [result |-> Err(found.err),
                   trace |-> <<CalledLookup(function.name)>>]
             ELSE IF ~arity.ok
             THEN [result |-> Err(arity.err),
                   trace |-> <<CalledLookup(function.name), CalledExpect>>]
             ELSE LET out == ApplyBuild(found.val, property.lazy) IN
                  [result |-> IF out.ok THEN out
                              ELSE Err(NoSuchMethod(tn, function.name)),
                   trace |-> <<CalledLookup(function.name), CalledExpect,
                               CalledBuild(found.val, property.lazy)>>]

\* expect_no_arguments hoisted above the match on the receiver
build_method_arity_all(this, property, function) ==
    LET tn == type_name(property)
        arity == expect_no_arguments(function)
    IN
    IF ~arity.ok
    THEN [result |-> Err(arity.err), trace |-> <<CalledExpect>>]
    ELSE IF property.tag = "Core"
    THEN [result |-> CoreBuildMethod(property.core, function),
          trace |-> <<CalledExpect, CalledCore("core.build_method")>>]
    ELSE LET table == this.keywords
             found == lookup_method(tn, table, function)
         IN  IF ~found.ok
             THEN [result |-> Err(found.err),
                   trace |-> <<CalledExpect, CalledLookup(function.name)>>]
             ELSE [result |-> ApplyBuild(found.val, property.lazy),
                   trace |-> <<CalledExpect, CalledLookup(function.name),
                               CalledBuild(found.val, property.lazy)>>]

\* the keyword function called before the arguments are checked
build_method_eager(this, property, function) ==
    LET tn == type_name(property) IN
    IF property.tag = "Core"
    THEN [result |-> CoreBuildMethod(property.core, function),
          trace |-> <<CalledCore("core.build_method")>>]
    ELSE LET table == this.keywords
             found == lookup_method(tn, table, function)
             arity == expect_no_arguments(function)
         IN  IF ~found.ok
             THEN [result |-> Err(found.err),
                   trace |-> <<CalledLookup(function.name)>>]
             ELSE IF ~arity.ok
             THEN [result |-> Err(arity.err),
                   trace |-> <<CalledLookup(function.name),
                               CalledBuild(found.val, property.lazy),
                               CalledExpect>>]
             ELSE [result |-> ApplyBuild(found.val, property.lazy),
                   trace |-> <<CalledLookup(function.name),
                               CalledBuild(found.val, property.lazy),
                               CalledExpect>>]

build_method(this, property, function) ==
    LET tn == type_name(property) IN
    IF property.tag = "Core"
    THEN [result |-> CoreBuildMethod(property.core, function),
          trace |-> <<CalledCore("core.build_method")>>]
    ELSE LET table == this.keywords
             found == lookup_method(tn, table, function)
             arity == expect_no_arguments(function)
         IN  IF ~found.ok
             THEN [result |-> Err(found.err),
                   trace |-> <<CalledLookup(function.name)>>]
             ELSE IF ~arity.ok
             THEN [result |-> Err(arity.err),
                   trace |-> <<CalledLookup(function.name), CalledExpect>>]
             ELSE [result |-> ApplyBuild(found.val, property.lazy),
                   trace |-> <<CalledLookup(function.name), CalledExpect,
                               CalledBuild(found.val, property.lazy)>>]

(* ------------------------------ actions -------------------------------- *)

\* the receivers build_method is called on: a string literal (it has builtin
\* methods), an integer literal (it has none), and the self properties
Receivers ==
    {Core(p) : p \in {q \in CoreTemplatePropertyKind :
                          q.src = 0 /\ q.type \in {"String", "Integer"}}}
        \cup {Self_(l) : l \in Lazies}

InitNew ==
    \E s \in SettingsValues :
        /\ settings = new(s).settings
        /\ keywords = new(s).keywords
        /\ ctor = "new"
        /\ latest = [n \in Names |-> None]
        /\ overwritten = {}
        /\ resolved = FALSE
        /\ last = [op |-> "new", settings |-> s]

InitWithKeywords ==
    \E s \in SettingsValues, table \in GenericTemplateBuildKeywordFnMap :
        /\ settings = with_keywords(table, s).settings
        /\ keywords = with_keywords(table, s).keywords
        /\ ctor = "with_keywords"
        /\ latest = [n \in Names |-> HashMapGet(table, n)]
        /\ overwritten = {}
        /\ resolved = FALSE
        /\ last = [op |-> "with_keywords", settings |-> s]

Init == InitNew \/ InitWithKeywords

AddKeyword(name, build) ==
    /\ keywords' = add_keyword(keywords, name, build)
    /\ latest' = [latest EXCEPT ![name] = Some(build)]
    /\ overwritten' = IF latest[name].some /\ latest[name].val # build
                      THEN overwritten \cup {name}
                      ELSE overwritten
    /\ last' = [op |-> "add_keyword", name |-> name, build |-> build,
                result |-> "unit"]
    /\ UNCHANGED <<settings, ctor, resolved>>

GetSettings ==
    /\ last' = [op |-> "settings", result |-> This.settings]
    /\ UNCHANGED <<settings, keywords, ctor, latest, overwritten, resolved>>

BuildFunction(function) ==
    LET out == build_function(This, function) IN
    /\ last' = [op |-> "build_function", function |-> function,
                result |-> out.result, trace |-> out.trace]
    /\ resolved' = TRUE
    /\ UNCHANGED <<settings, keywords, ctor, latest, overwritten>>

\* the entry taken out of the table (remove) instead of read (get)
BuildMethodRemove(property, function) ==
    LET out == build_method(This, property, function) IN
    /\ last' = [op |-> "build_method", property |-> property,
                function |-> function,
                result |-> out.result, trace |-> out.trace]
    /\ resolved' = TRUE
    /\ keywords' = IF property.tag = "Self_"
                   THEN {e \in keywords : e.name # function.name}
                   ELSE keywords
    /\ UNCHANGED <<settings, ctor, latest, overwritten>>

BuildMethod(property, function) ==
    LET out == build_method(This, property, function) IN
    /\ last' = [op |-> "build_method", property |-> property,
                function |-> function,
                result |-> out.result, trace |-> out.trace]
    /\ resolved' = TRUE
    /\ UNCHANGED <<settings, keywords, ctor, latest, overwritten>>

Next ==
    \/ \E name \in Names, build \in BuildFns : AddKeyword(name, build)
    \/ GetSettings
    \/ \E function \in FunctionCallNodes : BuildFunction(function)
    \/ \E property \in Receivers, function \in FunctionCallNodes :
           BuildMethod(property, function)

Spec == Init /\ [][Next]_vars

(* ---------- the coercions of GenericTemplatePropertyKind ---------------- *)

wrap_self(l) == Self_(l)

Environment == <<settings, keywords, ctor, latest, overwritten, resolved>>

WrapSelf(l) ==
    /\ last' = [op |-> "wrap_self", arg |-> l, result |-> wrap_self(l)]
    /\ UNCHANGED Environment

TypeName(property) ==
    /\ last' = [op |-> "type_name", property |-> property,
                result |-> type_name(property)]
    /\ UNCHANGED Environment

TryIntoBoolean(property) ==
    /\ last' = [op |-> "try_into_boolean", property |-> property,
                result |-> try_into_boolean(property)]
    /\ UNCHANGED Environment

TryIntoInteger(property) ==
    /\ last' = [op |-> "try_into_integer", property |-> property,
                result |-> try_into_integer(property)]
    /\ UNCHANGED Environment

TryIntoPlainText(property) ==
    /\ last' = [op |-> "try_into_plain_text", property |-> property,
                result |-> try_into_plain_text(property)]
    /\ UNCHANGED Environment

TryIntoTemplate(property) ==
    /\ last' = [op |-> "try_into_template", property |-> property,
                result |-> try_into_template(property)]
    /\ UNCHANGED Environment

TryIntoEq(lhs, rhs) ==
    /\ last' = [op |-> "try_into_eq", property |-> lhs, other |-> rhs,
                result |-> try_into_eq(lhs, rhs)]
    /\ UNCHANGED Environment

TryIntoCmp(lhs, rhs) ==
    /\ last' = [op |-> "try_into_cmp", property |-> lhs, other |-> rhs,
                result |-> try_into_cmp(lhs, rhs)]
    /\ UNCHANGED Environment

CoerceNext ==
    \/ \E l \in Lazies : WrapSelf(l)
    \/ \E property \in GenericTemplatePropertyKind : TypeName(property)
    \/ \E property \in GenericTemplatePropertyKind : TryIntoBoolean(property)
    \/ \E property \in GenericTemplatePropertyKind : TryIntoInteger(property)
    \/ \E property \in GenericTemplatePropertyKind : TryIntoPlainText(property)
    \/ \E property \in GenericTemplatePropertyKind : TryIntoTemplate(property)
    \/ \E lhs \in GenericTemplatePropertyKind, rhs \in GenericTemplatePropertyKind :
           TryIntoEq(lhs, rhs)
    \/ \E lhs \in GenericTemplatePropertyKind, rhs \in GenericTemplatePropertyKind :
           TryIntoCmp(lhs, rhs)

CoerceSpec == InitNew /\ [][CoerceNext]_vars

(* ------------------------------ properties ----------------------------- *)

ResolutionOps == {"build_function", "build_method"}

IsBuild(e) == e.call = "build"

IsLookup(e) == e.call = "lookup_method"

\* the last call is a method call on a self property
OnSelf == last.op = "build_method" /\ last.property.tag = "Self_"

\* the last call is a method call on a core property
OnCore == last.op = "build_method" /\ last.property.tag = "Core"

Registered == HashMapContains(keywords, last.function.name)

\* C1, as stated: a method call with arguments on a self property fails with
\* the error of expect_no_arguments, whether or not its name is registered
C1_ArgumentsAlwaysUnsupported ==
    (OnSelf /\ last.function.nargs > 0) =>
        last.result = Err(InvalidArguments(last.function.name))

\* C1, amended: a method call with arguments on a self property fails and
\* calls no keyword function; the lookup comes first, so the error is the one
\* of expect_no_arguments when the name is registered and the one of
\* lookup_method when it is not
C1_ArgumentsRejected ==
    (OnSelf /\ last.function.nargs > 0) =>
        /\ ~last.result.ok
        /\ SelectSeq(last.trace, IsBuild) = <<>>
        /\ Registered =>
               /\ last.result = Err(InvalidArguments(last.function.name))
               /\ last.trace = <<CalledLookup(last.function.name), CalledExpect>>
        /\ ~Registered =>
               /\ last.result = Err(NoSuchMethod("Self", last.function.name))
               /\ last.trace = <<CalledLookup(last.function.name)>>

C1_Witness ==
    /\ OnSelf /\ last.function.nargs > 0 /\ Registered
    /\ last.result = Err(InvalidArguments(last.function.name))

\* C2: a method call without arguments on a self property, under a registered
\* name, returns what the registered keyword function returns for that same
\* self property, its value or its error
C2_RegisteredBuildResult ==
    (OnSelf /\ last.function.nargs = 0 /\ Registered) =>
        last.result = ApplyBuild(HashMapGet(keywords, last.function.name).val,
                                 last.property.lazy)

C2_Witness ==
    /\ OnSelf /\ last.function.nargs = 0 /\ Registered
    /\ HashMapGet(keywords, last.function.name).val = "fails"
    /\ ~last.result.ok
    /\ last.result.err.kind = "Expression"

\* C3: a method call without arguments on a self property, under a name with
\* no entry in the keyword table, fails with NoSuchMethod carrying the name and
\* the type name "Self"; so does every such call on an environment built by
\* new with no add_keyword
C3_UnknownKeyword ==
    /\ (OnSelf /\ last.function.nargs = 0 /\ ~Registered) =>
           last.result = Err(NoSuchMethod("Self", last.function.name))
    /\ (OnSelf /\ last.function.nargs = 0 /\ ctor = "new"
            /\ \A n \in Names : ~latest[n].some) =>
           last.result = Err(NoSuchMethod("Self", last.function.name))

C3_Witness ==
    /\ OnSelf /\ last.function.nargs = 0
    /\ ctor = "new" /\ \A n \in Names : ~latest[n].some
    /\ last.result = Err(NoSuchMethod("Self", last.function.name))

\* C4: a free function call returns what the core function table returns and
\* never reads the keyword table, also when a keyword has the same name; the
\* keyword table is read only by a method call on a self property
C4_KeywordIsolation ==
    /\ last.op = "build_function" =>
           /\ last.result = CoreBuildFunction(last.function)
           /\ last.trace = <<CalledCore("core.build_function")>>
    /\ (last.op \in ResolutionOps /\ SelectSeq(last.trace, IsLookup) # <<>>) =>
           OnSelf

C4_Witness ==
    /\ last.op = "build_function"
    /\ Registered
    /\ last.result.ok

\* C5: the keyword table holds at most one entry per name, the entry of a name
\* is the build fn registered last (by add_keyword, or else by with_keywords),
\* a method call without arguments on a self property resolves to it, and
\* add_keyword returns no error
C5_RegistryOverride ==
    /\ \A n \in Names : Cardinality({e \in keywords : e.name = n}) <= 1
    /\ \A n \in Names : HashMapGet(keywords, n) = latest[n]
    /\ (OnSelf /\ last.function.nargs = 0 /\ latest[last.function.name].some) =>
           /\ last.result = ApplyBuild(latest[last.function.name].val,
                                       last.property.lazy)
           /\ SelectSeq(last.trace, IsBuild) =
                  <<CalledBuild(latest[last.function.name].val,
                                last.property.lazy)>>
    /\ last.op = "add_keyword" => last.result = "unit"

C5_Witness ==
    /\ OnSelf /\ last.function.nargs = 0
    /\ last.function.name \in overwritten
    /\ ctor = "with_keywords"
    /\ last.result = ApplyBuild(latest[last.function.name].val, last.property.lazy)

\* C6, as stated: the first resolution call moves the environment to the
\* resolving phase for good, and from then on the keyword table never changes
C6_NoMutationAfterFirstRead ==
    [][/\ resolved => resolved'
       /\ last'.op \in ResolutionOps => resolved'
       /\ resolved => keywords' = keywords]_vars

\* C6, amended: the first resolution call moves the environment to the
\* resolving phase for good and resolution calls leave the keyword table as
\* it is, but add_keyword takes effect in either phase: the table a resolution
\* call reads is the one left by the add_keyword calls made before it
C6_PhaseNotEnforced ==
    [][/\ resolved => resolved'
       /\ last'.op \in ResolutionOps => (resolved' /\ keywords' = keywords)
       /\ last'.op = "add_keyword" =>
              /\ HashMapGet(keywords', last'.name) = Some(last'.build)
              /\ resolved' = resolved]_vars

C6_Witness ==
    /\ resolved
    /\ last.op = "add_keyword"
    /\ HashMapGet(keywords, last.name) = Some(last.build)
    /\ last.name \in overwritten

(* coercions *)

UnaryCoercions ==
    {"try_into_boolean", "try_into_integer", "try_into_plain_text",
     "try_into_template"}

BinaryCoercions == {"try_into_eq", "try_into_cmp"}

CoreUnary(op, p) ==
    CASE op = "try_into_boolean" -> CoreTryIntoBoolean(p)
      [] op = "try_into_integer" -> CoreTryIntoInteger(p)
      [] op = "try_into_plain_text" -> CoreTryIntoPlainText(p)
      [] OTHER -> CoreTryIntoTemplate(p)

CoreBinary(op, p, q) ==
    IF op = "try_into_eq" THEN CoreTryIntoEq(p, q) ELSE CoreTryIntoCmp(p, q)

\* C7: each unary coercion returns None for a self property and the core
\* coercion's result for a core property; try_into_eq and try_into_cmp return
\* None unless both sides are core properties, and the core result then
C7_CoercionTotal ==
    /\ last.op \in UnaryCoercions =>
           /\ last.property.tag = "Self_" => last.result = None
           /\ last.property.tag = "Core" =>
                  last.result = CoreUnary(last.op, last.property.core)
    /\ last.op \in BinaryCoercions =>
           /\ (last.property.tag = "Self_" \/ last.other.tag = "Self_") =>
                  last.result = None
           /\ (last.property.tag = "Core" /\ last.other.tag = "Core") =>
                  last.result = CoreBinary(last.op, last.property.core,
                                           last.other.core)
    /\ last.op \in UnaryCoercions \cup BinaryCoercions =>
           (last.result = None \/ last.result.some)

C7_Witness ==
    /\ last.op = "try_into_eq"
    /\ last.property.tag = "Self_" /\ last.other.tag = "Self_"
    /\ last.property = last.other
    /\ last.result = None

\* C8: a method call on a core property returns what the core method table
\* returns for that property, whatever the keyword table holds and whatever
\* the number of arguments
C8_CoreDelegation ==
    OnCore =>
        /\ last.result = CoreBuildMethod(last.property.core, last.function)
        /\ last.trace = <<CalledCore("core.build_method")>>

C8_Witness ==
    /\ OnCore
    /\ Registered
    /\ last.function.nargs > 0
    /\ last.result.ok

\* C9: resolution calls and settings() change neither the keyword table nor
\* the settings; only add_keyword changes the table, and it changes neither
\* the entry of another name nor the settings
C9_ResolutionReadOnly ==
    [][/\ settings' = settings
       /\ last'.op \in ResolutionOps \cup {"settings"} => keywords' = keywords
       /\ last'.op = "settings" => last'.result = settings
       /\ keywords' # keywords => last'.op = "add_keyword"
       /\ last'.op = "add_keyword" =>
              \A n \in Names \ {last'.name} :
                  {e \in keywords' : e.name = n} = {e \in keywords : e.name = n}]_vars

C9_Witness ==
    /\ OnSelf
    /\ last.result.ok
    /\ Cardinality(keywords) > 1

TypeOK ==
    /\ settings \in SettingsValues
    /\ keywords \in GenericTemplateBuildKeywordFnMap
    /\ ctor \in {"new", "with_keywords"}
    /\ resolved \in BOOLEAN

====
